---- MODULE Spec2Model ----
(***************************************************************************)
(* Model of src/src/services/geminiService.ts (Conlang Studio): the        *)
(* credential lookup, the tolerant response parser and the seven exported  *)
(* operations that call the remote generative model.                       *)
(*                                                                         *)
(* Abstractions.  A credential is a sequence over the characters           *)
(* " " (whitespace), "q" (a quote, " or ') and "k" (any other character).  *)
(* Word forms, IPA strings and identifiers are numbers standing for        *)
(* distinct strings.  An absent etymology is the empty sequence, which is  *)
(* how the code reads it (etymology || '').  A remote call is an entry of  *)
(* `calls`; its answer is drawn by the Respond actions: a rejected         *)
(* promise, or a text, given by what safeParseJSON makes of it.            *)
(***************************************************************************)
EXTENDS Integers, Sequences, FiniteSets, TLC

VARIABLES
    localStorage,    \* value stored under STORAGE_KEY (<<>>: unset or "")
    env,             \* import.meta.env.VITE_GEMINI_API_KEY (<<>>: unset)
    op,              \* the exported operation being run
    input,           \* the caller's list: invalidEntries / words / lexicon
    rules,           \* evolveWords' rules argument
    pc,              \* "idle", "loop", "await", "done"
    i,               \* loop index of the chunk loops (0-based, as in the code)
    allRepairs,      \* repairLexicon's accumulator
    evolvedLexicon,  \* evolveWords' working copy
    calls,           \* remote calls issued so far, each with its payload
    outstanding,     \* remote calls issued and not yet answered
    result,          \* what the operation returned or raised
    fault,           \* the error caught at the operation's boundary
    failedChunk,     \* number of the chunk whose step failed (0: none)
    processed,       \* chunks whose response was parsed and accumulated
    parsedLog,       \* repairLexicon: the parsed result of each chunk
    touched,         \* evolveWords: <<position, originalWord>> of each change made
    text,            \* the response text handed to safeParseJSON
    jsonResult       \* what safeParseJSON returned or threw for text

vars == <<localStorage, env, op, input, rules, pc, i, allRepairs,
          evolvedLexicon, calls, outstanding, result, fault, failedChunk,
          processed, parsedLog, touched, text, jsonResult>>

-----------------------------------------------------------------------------
(* Bounds of the explored inputs *)

MaxN == 37          \* longest caller list
MaxRecords == 2     \* longest array in a model response
MaxShort == 2       \* longest caller list explored with every raw credential
MaxCore == 3        \* longest free token string inside a response text
MaxElems == 2       \* most objects in an array of objects of a response text

Min(a, b) == IF a < b THEN a ELSE b

RECURSIVE SeqsUpTo(_, _)
SeqsUpTo(S, m) ==
    IF m = 0 THEN {<<>>}
    ELSE LET shorter == SeqsUpTo(S, m - 1)
         IN  shorter \cup {Append(s, x) : s \in {t \in shorter : Len(t) = m - 1}, x \in S}

-----------------------------------------------------------------------------
(* Credential: getApiKey, getGenAI *)

RECURSIVE TrimLeft(_)
TrimLeft(s) == IF s # <<>> /\ Head(s) = " " THEN TrimLeft(Tail(s)) ELSE s

RECURSIVE TrimRight(_)
TrimRight(s) ==
    IF s # <<>> /\ s[Len(s)] = " " THEN TrimRight(SubSeq(s, 1, Len(s) - 1)) ELSE s

\* String.prototype.trim
Trim(s) == TrimRight(TrimLeft(s))

\* .replace(/^["']|["']$/g, ''): one leading and one trailing quote
StripQuotes(s) ==
    LET a == IF s # <<>> /\ Head(s) = "q" THEN Tail(s) ELSE s
    IN  IF a # <<>> /\ a[Len(a)] = "q" THEN SubSeq(a, 1, Len(a) - 1) ELSE a

getApiKey(stored, envKey) ==
    LET key == IF stored # <<>> THEN stored
               ELSE IF envKey # <<>> THEN envKey ELSE <<>>
    IN  StripQuotes(Trim(key))

ConfigurationError ==
    [kind |-> "ConfigurationError",
     message |-> "API Key not configured. Please set it in Settings."]

getGenAINoCheck(key) == [threw |-> FALSE, error |-> ConfigurationError, client |-> Trim(key)]

\* throws on an empty key, else builds the client from the trimmed key
getGenAI(key) ==
    IF key = <<>> THEN [threw |-> TRUE, error |-> ConfigurationError, client |-> <<>>]
    ELSE [threw |-> FALSE, error |-> ConfigurationError, client |-> Trim(key)]

-----------------------------------------------------------------------------
(* Tolerant response parser: safeParseJSON.                                *)
(* A text is a sequence of tokens: the JSON punctuation, "s" (a string     *)
(* literal), " " (whitespace), "p" (a word of prose), "FO" (the fence      *)
(* opener ```json\n) and "FC" (the fence closer \n```).  A JSON value is    *)
(* written as the tokens of its text without whitespace; the texts         *)
(* explored hold no object with two different spellings of one value.      *)

JsonTokens == {"{", "}", "[", "]", ",", ":", "s"}

At(t, k) == IF k \in 1..Len(t) THEN t[k] ELSE "eof"

RECURSIVE ValueEnd(_, _), MembersEnd(_, _), ElementsEnd(_, _)

\* the position after the JSON value that starts at k, 0 if none does
ValueEnd(t, k) ==
    IF At(t, k) = "s" THEN k + 1
    ELSE IF At(t, k) = "{"
    THEN (IF At(t, k + 1) = "}" THEN k + 2 ELSE MembersEnd(t, k + 1))
    ELSE IF At(t, k) = "["
    THEN (IF At(t, k + 1) = "]" THEN k + 2 ELSE ElementsEnd(t, k + 1))
    ELSE 0

MembersEnd(t, k) ==
    IF At(t, k) = "s" /\ At(t, k + 1) = ":"
    THEN LET v == ValueEnd(t, k + 2)
         IN  IF v = 0 THEN 0
             ELSE IF At(t, v) = "," THEN MembersEnd(t, v + 1)
             ELSE IF At(t, v) = "}" THEN v + 1
             ELSE 0
    ELSE 0

ElementsEnd(t, k) ==
    LET v == ValueEnd(t, k)
    IN  IF v = 0 THEN 0
        ELSE IF At(t, v) = "," THEN ElementsEnd(t, v + 1)
        ELSE IF At(t, v) = "]" THEN v + 1
        ELSE 0

\* JSON.parse: whitespace between tokens is skipped, the rest must be one value
JSONparse(str) ==
    LET t == SelectSeq(str, LAMBDA c : c # " ")
    IN  IF t # <<>> /\ ValueEnd(t, 1) = Len(t) + 1
        THEN [threw |-> FALSE, value |-> t]
        ELSE [threw |-> TRUE, value |-> <<>>]

\* String.prototype.indexOf from position `from`, 1-based; 0 stands for -1
IndexFrom(t, c, from) ==
    IF \E k \in from..Len(t) : t[k] = c
    THEN CHOOSE k \in from..Len(t) : t[k] = c /\ \A j \in from..(k - 1) : t[j] # c
    ELSE 0

indexOf(t, c) == IndexFrom(t, c, 1)

lastIndexOf(t, c) ==
    IF \E k \in 1..Len(t) : t[k] = c
    THEN CHOOSE k \in 1..Len(t) : t[k] = c /\ \A j \in (k + 1)..Len(t) : t[j] # c
    ELSE 0

NoMatch == [found |-> FALSE, str |-> <<>>]

\* text.match(/```json\n([\s\S]*?)\n```/): group 1 of the first match
markdownMatch(t) ==
    LET a == indexOf(t, "FO")
        b == IF a = 0 THEN 0 ELSE IndexFrom(t, "FC", a + 1)
    IN  IF b = 0 THEN NoMatch ELSE [found |-> TRUE, str |-> SubSeq(t, a + 1, b - 1)]

\* whether /{\s*["'\w\d]*?:[\s\S]*?}/ matches from the brace at a
AggressiveAt(t, a) ==
    /\ At(t, a) = "{"
    /\ \E c \in (a + 1)..Len(t) :
          /\ t[c] = ":"
          /\ \A j \in (a + 1)..(c - 1) : t[j] \in {" ", "s", "p"}
          /\ \A j \in (a + 1)..(c - 1) : \A l \in (j + 1)..(c - 1) : t[l] = " " => t[j] = " "
          /\ IndexFrom(t, "}", c + 1) # 0

\* text.match(/{\s*["'\w\d]*?:[\s\S]*?}/): the first match
aggressiveMatch(t) ==
    IF \E a \in 1..Len(t) : AggressiveAt(t, a)
    THEN LET a == CHOOSE a \in 1..Len(t) :
                     AggressiveAt(t, a) /\ \A j \in 1..(a - 1) : ~AggressiveAt(t, j)
             c == IndexFrom(t, ":", a + 1)
         IN  [found |-> TRUE, str |-> SubSeq(t, a, IndexFrom(t, "}", c + 1))]
    ELSE NoMatch

\* the chain with the brace heuristic ahead of the fence
CandidateBraceFirst(t) ==
    LET md == markdownMatch(t)
        firstCurly == indexOf(t, "{")
        lastCurly == lastIndexOf(t, "}")
    IN  IF firstCurly # 0 /\ lastCurly # 0 /\ lastCurly > firstCurly
        THEN SubSeq(t, firstCurly, lastCurly)
        ELSE IF md.found /\ md.str # <<>> THEN md.str
        ELSE Trim(t)

\* lines 38-59: the candidate the heuristics pick
Candidate(t) ==
    LET md == markdownMatch(t)
        firstCurly == indexOf(t, "{")
        lastCurly == lastIndexOf(t, "}")
        ag == aggressiveMatch(t)
    IN  IF md.found /\ md.str # <<>> THEN md.str
        ELSE IF firstCurly # 0 /\ lastCurly # 0 /\ lastCurly > firstCurly
        THEN SubSeq(t, firstCurly, lastCurly)
        ELSE IF ag.found /\ ag.str # <<>> THEN ag.str
        ELSE Trim(t)

\* lines 62-76: trim, and cut what precedes the first bracket or brace
Cleaned(candidate) ==
    LET jsonString == Trim(candidate)
        firstBracket == indexOf(jsonString, "[")
        firstBrace == indexOf(jsonString, "{")
    IN  IF At(jsonString, 1) \in {"{", "["} THEN [threw |-> FALSE, str |-> jsonString]
        ELSE IF firstBracket # 0 /\ (firstBrace = 0 \/ firstBracket < firstBrace)
        THEN [threw |-> FALSE, str |-> SubSeq(jsonString, firstBracket, Len(jsonString))]
        ELSE IF firstBrace # 0
        THEN [threw |-> FALSE, str |-> SubSeq(jsonString, firstBrace, Len(jsonString))]
        ELSE [threw |-> TRUE, str |-> <<>>]

NoJson == [threw |-> FALSE, value |-> <<>>]

safeParseJSON(t) ==
    LET cleaned == Cleaned(Candidate(t))
    IN  IF cleaned.threw THEN [threw |-> TRUE, value |-> <<>>]
        ELSE JSONparse(cleaned.str)

-----------------------------------------------------------------------------
(* Errors raised inside an operation *)

NoError == [kind |-> "none", message |-> ""]
TransportErrors ==
    {[kind |-> "TransportError", message |-> m] : m \in {"", "fetch failed"}}
MalformedResponse == [kind |-> "MalformedResponse", message |-> "Unexpected token"]
TypeError == [kind |-> "TypeError", message |-> "not iterable / not a function"]
NoWordsError ==
    [kind |-> "NoWords", message |-> "No words could be generated."]

-----------------------------------------------------------------------------
(* Results *)

NoResult ==
    [returned |-> FALSE, raised |-> FALSE, message |-> <<>>, success |-> "none",
     list |-> <<>>, modifiedCount |-> 0, text |-> <<>>, phonology |-> <<>>,
     sameObject |-> FALSE]

Returned == [NoResult EXCEPT !.returned = TRUE]

-----------------------------------------------------------------------------
(* Inputs *)

\* LexiconEntry number k of a caller list whose word forms repeat with period pat
Entry(k, pat) ==
    [id |-> k, word |-> ((k - 1) % pat) + 1, ipa |-> 0,
     etymology |-> IF k % 2 = 0 THEN <<>> ELSE <<"old">>]

Lexicon(n, pat) == [k \in 1..n |-> Entry(k, pat)]

WordPeriods == {1, 2}
Words == {1, 2, 3}         \* 3 is a word form no caller list holds
RawKeys == {<<>>, <<" ">>, <<"k">>, <<"q", "q">>, <<"q", "k", "q">>, <<"q", " ", "q">>}
EnvKeys == {<<>>, <<"k">>}
\* <<localStorage, env>> of the runs on longer lists: a plain key, or none
PlainKeys == {<<<<"k">>, <<>>>>, <<<<>>, <<>>>>}
ResponseTexts == {<<>>, <<"k">>, <<" ", "k", " ">>}

ChunkedOps == {"repairLexicon", "evolveWords"}
SingleOps == {"suggestIPA", "generateWords", "processCommandAI", "analyzeSyntax",
              "generatePhonology"}
ListOps == ChunkedOps \cup {"processCommandAI"}
Ops == ChunkedOps \cup SingleOps

-----------------------------------------------------------------------------
(* Chunking *)

CHUNK_SIZE(o) == IF o = "repairLexicon" THEN 15 ELSE 10

SliceOffByOne(s, start, end) == SubSeq(s, start + 2, Min(end + 1, Len(s)))

\* Array.prototype.slice(start, end) for 0 <= start <= end
Slice(s, start, end) == SubSeq(s, start + 1, Min(end, Len(s)))

\* what the prompt of a call carries of its chunk
Payload(o, chunk) ==
    IF o = "repairLexicon"
    THEN [k \in DOMAIN chunk |->
             [id |-> chunk[k].id, word |-> chunk[k].word, ipa |-> chunk[k].ipa]]
    ELSE IF o = "evolveWords" THEN [k \in DOMAIN chunk |-> chunk[k].word]
    ELSE <<>>

-----------------------------------------------------------------------------
(* Answers of the remote model.  parsed is what safeParseJSON makes of the  *)
(* text: it throws, or returns an array (isArray) or an object.             *)

Rejections ==
    {[rejected |-> TRUE, error |-> e, text |-> <<>>,
      parsed |-> [threw |-> TRUE, isArray |-> FALSE, items |-> <<>>]] :
        e \in TransportErrors}

TextAnswer(t, p) == [rejected |-> FALSE, error |-> NoError, text |-> t, parsed |-> p]

ParseThrows == [threw |-> TRUE, isArray |-> FALSE, items |-> <<>>]
ParsedArray(items) == [threw |-> FALSE, isArray |-> TRUE, items |-> items]
ParsedObject(items) == [threw |-> FALSE, isArray |-> FALSE, items |-> items]

RepairRecords == {[id |-> 1, word |-> 7, ipa |-> 7]}

RepairAnswers(chunk) ==
    Rejections \cup
    {TextAnswer(<<>>, p) :
        p \in {ParseThrows, ParsedObject(<<>>), ParsedArray(Payload("repairLexicon", chunk))}
              \cup {ParsedArray(a) : a \in SeqsUpTo(RepairRecords, MaxRecords)}}

\* a sound change shifts word form w to the next one
EvolveRecords ==
    {[originalWord |-> w, newWord |-> (w % 3) + 1, newIPA |-> 9, changeLog |-> "log"] :
        w \in Words}

EvolveAnswers ==
    Rejections \cup
    {TextAnswer(<<>>, p) :
        p \in {ParseThrows, ParsedObject(<<>>)}
              \cup {ParsedArray(a) : a \in SeqsUpTo(EvolveRecords, MaxRecords)}}

\* a modification record: id (0: no id) and the fields in `has`
ModRecords ==
    {[id |-> d, has |-> {"word"}, word |-> 7, ipa |-> 0, etymology |-> <<>>] : d \in 0..2}
    \cup
    {[id |-> d, has |-> {"ipa", "etymology"}, word |-> 0, ipa |-> 8, etymology |-> <<"new">>] :
        d \in 0..2}

\* resultData: an object with a modifications array, or a value without one
CommandAnswers ==
    Rejections \cup
    {TextAnswer(<<>>, p) :
        p \in {ParseThrows, ParsedArray(<<>>)}
              \cup {ParsedObject(a) : a \in SeqsUpTo(ModRecords, MaxRecords)}}

WordRecords == {[word |-> 7, ipa |-> 7]}

GenerateAnswers ==
    Rejections \cup
    {TextAnswer(<<>>, p) :
        p \in {ParseThrows, ParsedObject(<<>>)}
              \cup {ParsedArray(a) : a \in SeqsUpTo(WordRecords, MaxRecords)}}

TextAnswers == Rejections \cup {TextAnswer(t, ParseThrows) : t \in ResponseTexts}

-----------------------------------------------------------------------------
(* repairLexicon *)

\* e?.message || e?.toString() || "Unknown error"
ErrorMsg(e) == IF e.message # "" THEN e.message ELSE "Error"

repairLexicon_catchPartial(e, repairs) ==
    [Returned EXCEPT !.success = "false", !.list = repairs,
        !.message = <<"AI Repair Failed: ", ErrorMsg(e), ". Verifica tu API key en Settings.">>]

\* the catch block: success false, no repairs, the cause in the message
repairLexicon_catch(e, repairs) ==
    [Returned EXCEPT !.success = "false", !.list = <<>>,
        !.message = <<"AI Repair Failed: ", ErrorMsg(e), ". Verifica tu API key en Settings.">>]

repairLexicon_return(repairs) == [Returned EXCEPT !.success = "true", !.list = repairs]

-----------------------------------------------------------------------------
(* evolveWords *)

\* Array.prototype.findIndex(w => w.word === word), 1-based; 0 stands for -1
findIndex(lex, word) ==
    IF \E k \in DOMAIN lex : lex[k].word = word
    THEN CHOOSE k \in DOMAIN lex :
            /\ lex[k].word = word
            /\ \A j \in 1..(k - 1) : lex[j].word # word
    ELSE 0

\* the body of results.forEach: st is the working copy and the record of changes
ApplyResult(st, res) ==
    LET index == findIndex(st.lexicon, res.originalWord)
    IN  IF index # 0
        THEN [lexicon |->
                [st.lexicon EXCEPT ![index] =
                    [@ EXCEPT !.word = res.newWord,
                              !.ipa = res.newIPA,
                              !.etymology = @ \o <<"; ", res.changeLog>>]],
              touched |-> st.touched \cup {<<index, res.originalWord>>}]
        ELSE st

RECURSIVE forEachResult(_, _)
forEachResult(st, results) ==
    IF results = <<>> THEN st
    ELSE forEachResult(ApplyResult(st, Head(results)), Tail(results))

evolveWords_catchPartial(words, evolved) ==
    [Returned EXCEPT !.list = evolved, !.sameObject = FALSE]

\* the catch block returns the caller's own list
evolveWords_catch(words, evolved) ==
    [Returned EXCEPT !.list = words, !.sameObject = TRUE]

evolveWords_return(evolved) == [Returned EXCEPT !.list = evolved]

-----------------------------------------------------------------------------
(* processCommandAI *)

NoMod == [id |-> 0, has |-> {}, word |-> 0, ipa |-> 0, etymology |-> <<>>]

findLast(mods, id) ==
    IF \E k \in DOMAIN mods : mods[k].id = id
    THEN mods[CHOOSE k \in DOMAIN mods :
                /\ mods[k].id = id
                /\ \A j \in (k + 1)..Len(mods) : mods[j].id # id]
    ELSE NoMod

\* Array.prototype.find(m => m.id === id): the first such record, or NoMod
find(mods, id) ==
    IF \E k \in DOMAIN mods : mods[k].id = id
    THEN mods[CHOOSE k \in DOMAIN mods :
                /\ mods[k].id = id
                /\ \A j \in 1..(k - 1) : mods[j].id # id]
    ELSE NoMod

\* { ...entry, ...mod }
Overlay(entry, mod) ==
    [id |-> mod.id,
     word |-> IF "word" \in mod.has THEN mod.word ELSE entry.word,
     ipa |-> IF "ipa" \in mod.has THEN mod.ipa ELSE entry.ipa,
     etymology |-> IF "etymology" \in mod.has THEN mod.etymology ELSE entry.etymology]

\* lexicon.map(entry => mod ? { ...entry, ...mod } : entry)
MapLexicon(lexicon, mods) ==
    [k \in DOMAIN lexicon |->
        LET mod == find(mods, lexicon[k].id)
        IN  IF mod # NoMod THEN Overlay(lexicon[k], mod) ELSE lexicon[k]]

processCommandAI_return(lexicon, mods) ==
    [Returned EXCEPT !.success = "true", !.modifiedCount = Len(mods),
                     !.list = MapLexicon(lexicon, mods)]

processCommandAI_catch(e) ==
    [Returned EXCEPT !.success = "false", !.modifiedCount = 0, !.message = <<e.message>>]

\* the empty-lexicon return: failure, no message
processCommandAI_empty == [Returned EXCEPT !.success = "false", !.modifiedCount = 0]

-----------------------------------------------------------------------------
(* generateWords, suggestIPA, analyzeSyntax, generatePhonology *)

generateWords_catchEmpty(e) == [Returned EXCEPT !.list = <<>>]

\* the catch block raises a new error with the cause appended
generateWords_catch(e) ==
    [NoResult EXCEPT !.raised = TRUE,
        !.message = <<"Error generating words: ",
                      IF e.message # "" THEN e.message
                      ELSE "Verifica tu API key en Settings">>]

suggestIPA_catch == [Returned EXCEPT !.text = <<"/error/">>]
analyzeSyntax_catch ==
    [Returned EXCEPT !.text = <<"Error analyzing syntax. Verifica tu API key.">>]

Str(v) == [t |-> "string", v |-> v]
Arr(v) == [t |-> "array", v |-> v]
Other(t) == [t |-> t, v |-> <<>>]

StringFields == {"name", "description", "syllableStructure"}
ArrayFields == {"consonants", "vowels", "bannedCombinations"}

\* the parsed value handed on as it is
safeParsePhonologyConfigRaw(parsed) == parsed

\* the field-by-field defaults of safeParsePhonologyConfig
safeParsePhonologyConfig(parsed) ==
    [f \in StringFields \cup ArrayFields |->
        IF f \in StringFields
        THEN (IF parsed[f].t = "string" THEN parsed[f] ELSE Str(<<>>))
        ELSE (IF parsed[f].t = "array" THEN parsed[f] ELSE Arr(<<>>))]

DefaultPhonology ==
    [f \in StringFields \cup ArrayFields |->
        IF f = "name" THEN Str(<<"Default Phonology">>)
        ELSE IF f = "description"
        THEN Str(<<"Failed to generate phonology. Please check your API key and prompt.">>)
        ELSE IF f = "syllableStructure" THEN Str(<<"CV">>)
        ELSE Arr(<<>>)]

generatePhonology_catch == [Returned EXCEPT !.phonology = DefaultPhonology]

FieldValues == {Str(<<"x">>), Arr(<<"y">>), Other("number"), Other("undefined")}

\* parsed objects: name and consonants of any shape, the rest in fewer shapes
PhonologyValues ==
    {[f \in StringFields \cup ArrayFields |->
        IF f = "name" THEN a
        ELSE IF f = "consonants" THEN b
        ELSE IF f \in StringFields THEN c ELSE d] :
        a \in FieldValues, b \in FieldValues,
        c \in {Str(<<"x">>), Arr(<<"y">>), Other("undefined")},
        d \in {Arr(<<"y">>), Other("undefined")}}

PhonologyFailures == Rejections \cup {TextAnswer(<<>>, ParseThrows)}

-----------------------------------------------------------------------------
(* The state machine: one operation, from its call to its return *)

Init ==
    /\ localStorage \in RawKeys
    /\ env \in EnvKeys
    /\ op \in Ops
    /\ \E n \in 0..MaxN, pat \in WordPeriods :
          /\ op \notin ListOps => n = 0
          /\ op # "evolveWords" => pat = 1
          /\ n > MaxShort => <<localStorage, env>> \in PlainKeys
          /\ input = Lexicon(n, pat)
    /\ rules \in {<<>>, <<"r">>}
    /\ op # "evolveWords" => rules = <<>>
    /\ pc = "idle"
    /\ i = 0
    /\ allRepairs = <<>>
    /\ evolvedLexicon = <<>>
    /\ calls = <<>>
    /\ outstanding = 0
    /\ result = NoResult
    /\ fault = NoError
    /\ failedChunk = 0
    /\ processed = 0
    /\ parsedLog = <<>>
    /\ touched = {}
    /\ text = <<>>
    /\ jsonResult = NoJson

Finish(res, err, chunkNo) ==
    /\ result' = res
    /\ fault' = err
    /\ failedChunk' = chunkNo
    /\ pc' = "done"

\* the number of the chunk the loop is at
ChunkNo == (i \div CHUNK_SIZE(op)) + 1

\* the step after `await model.generateContent(...)` is the answer's
AwaitCallNot == "loop"
AwaitCall == "await"

\* the error an answer makes the chunk step raise, NoError if none
AnswerError(a, needArray) ==
    IF a.rejected THEN a.error
    ELSE IF a.parsed.threw THEN MalformedResponse
    ELSE IF needArray /\ ~a.parsed.isArray THEN TypeError
    ELSE NoError

\* repairLexicon, lines 118-136: empty input, then the client
Start_repairLexicon ==
    /\ pc = "idle" /\ op = "repairLexicon"
    /\ IF Len(input) = 0
       THEN /\ Finish(repairLexicon_return(<<>>), NoError, 0)
            /\ UNCHANGED <<i, allRepairs>>
       ELSE LET genAI == getGenAI(getApiKey(localStorage, env))
            IN  IF genAI.threw
                THEN /\ Finish(repairLexicon_catch(genAI.error, allRepairs), genAI.error, 0)
                     /\ UNCHANGED <<i, allRepairs>>
                ELSE /\ pc' = "loop"
                     /\ i' = 0
                     /\ allRepairs' = <<>>
                     /\ UNCHANGED <<result, fault, failedChunk>>
    /\ UNCHANGED <<localStorage, env, op, input, rules, evolvedLexicon, calls,
                   outstanding, processed, parsedLog, touched, text, jsonResult>>

\* evolveWords, lines 219-229
Start_evolveWords ==
    /\ pc = "idle" /\ op = "evolveWords"
    /\ IF Len(input) = 0 \/ Len(rules) = 0
       THEN /\ Finish([Returned EXCEPT !.list = input, !.sameObject = TRUE], NoError, 0)
            /\ UNCHANGED <<i, evolvedLexicon>>
       ELSE LET genAI == getGenAI(getApiKey(localStorage, env))
            IN  IF genAI.threw
                THEN /\ Finish(evolveWords_catch(input, input), genAI.error, 0)
                     /\ evolvedLexicon' = input
                     /\ UNCHANGED i
                ELSE /\ pc' = "loop"
                     /\ i' = 0
                     /\ evolvedLexicon' = input
                     /\ UNCHANGED <<result, fault, failedChunk>>
    /\ UNCHANGED <<localStorage, env, op, input, rules, allRepairs, calls,
                   outstanding, processed, parsedLog, touched, text, jsonResult>>

\* the catch block of a single-call operation
Catch(o, e) ==
    IF o = "suggestIPA" THEN suggestIPA_catch
    ELSE IF o = "generateWords" THEN generateWords_catch(e)
    ELSE IF o = "processCommandAI" THEN processCommandAI_catch(e)
    ELSE IF o = "analyzeSyntax" THEN analyzeSyntax_catch
    ELSE generatePhonology_catch

\* the single-call operations up to their remote call
Start(o) ==
    /\ pc = "idle" /\ op = o
    /\ IF o = "processCommandAI" /\ Len(input) = 0
       THEN Finish(processCommandAI_empty, NoError, 0)
       ELSE LET genAI == getGenAI(getApiKey(localStorage, env))
            IN  IF genAI.threw
                THEN Finish(Catch(o, genAI.error), genAI.error, 0)
                ELSE /\ pc' = "loop"
                     /\ UNCHANGED <<result, fault, failedChunk>>
    /\ UNCHANGED <<localStorage, env, op, input, rules, i, allRepairs, evolvedLexicon,
                   calls, outstanding, processed, parsedLog, touched, text, jsonResult>>

\* model.generateContent(prompt): the loop test, the slice, the call
Issue ==
    /\ pc = "loop"
    /\ op \in ChunkedOps => i < Len(input)
    /\ calls' = Append(calls,
                  [op |-> op,
                   payload |-> Payload(op, Slice(input, i, i + CHUNK_SIZE(op)))])
    /\ outstanding' = outstanding + 1
    /\ pc' = AwaitCall
    /\ UNCHANGED <<localStorage, env, op, input, rules, i, allRepairs, evolvedLexicon,
                   result, fault, failedChunk, processed, parsedLog, touched, text,
                   jsonResult>>

\* the loops' exit: return { success: true, repairs } / return evolvedLexicon
LoopExit ==
    /\ pc = "loop" /\ op \in ChunkedOps
    /\ i >= Len(input)
    /\ Finish(IF op = "repairLexicon" THEN repairLexicon_return(allRepairs)
              ELSE evolveWords_return(evolvedLexicon), NoError, 0)
    /\ UNCHANGED <<localStorage, env, op, input, rules, i, allRepairs, evolvedLexicon,
                   calls, outstanding, processed, parsedLog, touched, text, jsonResult>>

\* repairLexicon, lines 147-161: parse, push, next chunk; or the catch block
Respond_repairLexicon ==
    /\ pc = "await" /\ op = "repairLexicon"
    /\ outstanding' = outstanding - 1
    /\ \E a \in RepairAnswers(Slice(input, i, i + CHUNK_SIZE(op))) :
          LET e == AnswerError(a, TRUE)
          IN  IF e # NoError
              THEN /\ Finish(repairLexicon_catch(e, allRepairs), e, ChunkNo)
                   /\ UNCHANGED <<i, allRepairs, processed, parsedLog>>
              ELSE /\ allRepairs' = allRepairs \o a.parsed.items
                   /\ parsedLog' = Append(parsedLog, a.parsed.items)
                   /\ i' = i + CHUNK_SIZE(op)
                   /\ processed' = processed + 1
                   /\ pc' = "loop"
                   /\ UNCHANGED <<result, fault, failedChunk>>
    /\ UNCHANGED <<localStorage, env, op, input, rules, evolvedLexicon, calls, touched,
                   text, jsonResult>>

\* evolveWords, lines 235-253: parse, merge, next chunk; or the catch block
Respond_evolveWords ==
    /\ pc = "await" /\ op = "evolveWords"
    /\ outstanding' = outstanding - 1
    /\ \E a \in EvolveAnswers :
          LET e == AnswerError(a, TRUE)
              st == forEachResult([lexicon |-> evolvedLexicon, touched |-> touched],
                                  a.parsed.items)
          IN  IF e # NoError
              THEN /\ Finish(evolveWords_catch(input, evolvedLexicon), e, ChunkNo)
                   /\ UNCHANGED <<i, evolvedLexicon, processed, touched>>
              ELSE /\ evolvedLexicon' = st.lexicon
                   /\ touched' = st.touched
                   /\ i' = i + CHUNK_SIZE(op)
                   /\ processed' = processed + 1
                   /\ pc' = "loop"
                   /\ UNCHANGED <<result, fault, failedChunk>>
    /\ UNCHANGED <<localStorage, env, op, input, rules, allRepairs, calls, parsedLog,
                   text, jsonResult>>

\* processCommandAI, lines 271-282
Respond_processCommandAI ==
    /\ pc = "await" /\ op = "processCommandAI"
    /\ outstanding' = outstanding - 1
    /\ \E a \in CommandAnswers :
          LET e == AnswerError(a, FALSE)
              \* resultData.modifications || []
              mods == IF a.parsed.isArray THEN <<>> ELSE a.parsed.items
          IN  IF e # NoError
              THEN /\ Finish(processCommandAI_catch(e), e, 1)
                   /\ UNCHANGED <<processed, parsedLog>>
              ELSE /\ Finish(processCommandAI_return(input, mods), NoError, 0)
                   /\ parsedLog' = <<mods>>
                   /\ processed' = processed + 1
    /\ UNCHANGED <<localStorage, env, op, input, rules, i, allRepairs, evolvedLexicon,
                   calls, touched, text, jsonResult>>

\* generateWords, lines 201-212
Respond_generateWords ==
    /\ pc = "await" /\ op = "generateWords"
    /\ outstanding' = outstanding - 1
    /\ \E a \in GenerateAnswers :
          LET e == AnswerError(a, FALSE)
              thrown == IF e # NoError THEN e
                        ELSE IF ~a.parsed.isArray \/ Len(a.parsed.items) = 0
                        THEN NoWordsError ELSE NoError
          IN  IF thrown # NoError
              THEN /\ Finish(generateWords_catch(thrown), thrown, 1)
                   /\ UNCHANGED processed
              ELSE /\ Finish([Returned EXCEPT !.list = a.parsed.items], NoError, 0)
                   /\ processed' = processed + 1
    /\ UNCHANGED <<localStorage, env, op, input, rules, i, allRepairs, evolvedLexicon,
                   calls, parsedLog, touched, text, jsonResult>>

\* suggestIPA, lines 170-175, and analyzeSyntax, lines 291-296
Respond_text ==
    /\ pc = "await" /\ op \in {"suggestIPA", "analyzeSyntax"}
    /\ outstanding' = outstanding - 1
    /\ \E a \in TextAnswers :
          IF a.rejected
          THEN /\ Finish(Catch(op, a.error), a.error, 1)
               /\ UNCHANGED processed
          ELSE /\ Finish([Returned EXCEPT !.text =
                            IF op = "suggestIPA" THEN Trim(a.text) ELSE a.text],
                         NoError, 0)
               /\ processed' = processed + 1
    /\ UNCHANGED <<localStorage, env, op, input, rules, i, allRepairs, evolvedLexicon,
                   calls, parsedLog, touched, text, jsonResult>>

\* generatePhonology, lines 309-326
Respond_generatePhonology ==
    /\ pc = "await" /\ op = "generatePhonology"
    /\ outstanding' = outstanding - 1
    /\ \/ \E a \in PhonologyFailures :
             /\ Finish(generatePhonology_catch, AnswerError(a, FALSE), 1)
             /\ UNCHANGED <<processed, parsedLog>>
       \/ \E v \in PhonologyValues :
             /\ Finish([Returned EXCEPT !.phonology = safeParsePhonologyConfig(v)],
                       NoError, 0)
             /\ processed' = processed + 1
             /\ parsedLog' = <<v>>
    /\ UNCHANGED <<localStorage, env, op, input, rules, i, allRepairs, evolvedLexicon,
                   calls, touched, text, jsonResult>>

Next ==
    \/ Start_repairLexicon
    \/ Start_evolveWords
    \/ \E o \in SingleOps : Start(o)
    \/ Issue
    \/ LoopExit
    \/ Respond_repairLexicon
    \/ Respond_evolveWords
    \/ Respond_processCommandAI
    \/ Respond_generateWords
    \/ Respond_text
    \/ Respond_generatePhonology

Spec == Init /\ [][Next]_vars

-----------------------------------------------------------------------------
(* The parser alone, on response texts *)

\* arrays of m objects, each {} or {"s":"s"}, with and without whitespace
RECURSIVE ObjectLists(_)
ObjectLists(m) ==
    IF m = 1 THEN {<<"{", "}">>, <<"{", "s", ":", "s", "}">>}
    ELSE {l \o sep \o o : l \in ObjectLists(m - 1),
                          sep \in {<<",">>, <<",", " ">>},
                          o \in ObjectLists(1)}

ObjectArrays == UNION {{<<"[">> \o l \o <<"]">> : l \in ObjectLists(m)} : m \in 1..MaxElems}

Cores == SeqsUpTo(JsonTokens, MaxCore) \cup ObjectArrays \cup UNION {ObjectLists(m) : m \in 1..MaxElems}

Prose == {<<>>, <<"p">>, <<" ">>, <<"p", "{", "p", "}">>, <<"p", "[", "p", "]">>}

InitParse ==
    /\ localStorage = <<>>
    /\ env = <<>>
    /\ op = "safeParseJSON"
    /\ input = <<>>
    /\ rules = <<>>
    /\ pc = "idle"
    /\ i = 0
    /\ allRepairs = <<>>
    /\ evolvedLexicon = <<>>
    /\ calls = <<>>
    /\ outstanding = 0
    /\ result = NoResult
    /\ fault = NoError
    /\ failedChunk = 0
    /\ processed = 0
    /\ parsedLog = <<>>
    /\ touched = {}
    /\ \E pre \in Prose, core \in Cores, post \in Prose, fenced \in BOOLEAN :
          text = IF fenced THEN pre \o <<"FO">> \o core \o <<"FC">> \o post
                 ELSE pre \o core \o post
    /\ jsonResult = NoJson

Parse ==
    /\ pc = "idle" /\ op = "safeParseJSON"
    /\ jsonResult' = safeParseJSON(text)
    /\ pc' = "done"
    /\ UNCHANGED <<localStorage, env, op, input, rules, i, allRepairs, evolvedLexicon,
                   calls, outstanding, result, fault, failedChunk, processed, parsedLog,
                   touched, text>>

NextParse == Parse

SpecParse == InitParse /\ [][NextParse]_vars

-----------------------------------------------------------------------------
(* Properties *)

Done == pc = "done"
Failed == fault # NoError
KeyEmpty == getApiKey(localStorage, env) = <<>>

RECURSIVE Flatten(_)
Flatten(seqs) == IF seqs = <<>> THEN <<>> ELSE Head(seqs) \o Flatten(Tail(seqs))

ChunkCount == (Len(input) + CHUNK_SIZE(op) - 1) \div CHUNK_SIZE(op)

\* the input items [k*chunkSize, min((k+1)*chunkSize, n)), k counted from 0
ChunkItems(k) ==
    SubSeq(input, k * CHUNK_SIZE(op) + 1, Min((k + 1) * CHUNK_SIZE(op), Len(input)))

ChunkingHolds ==
    /\ Len(calls) = ChunkCount
    /\ \A k \in 0..(ChunkCount - 1) : calls[k + 1].payload = Payload(op, ChunkItems(k))
    /\ Flatten([k \in 1..Len(calls) |-> calls[k].payload]) = Payload(op, input)
    /\ op = "repairLexicon" =>
          /\ result.success = "true"
          /\ result.list = Flatten(parsedLog)
          /\ Len(parsedLog) = ChunkCount

\* C1 as stated: n > 0 items and no call failing (a credential being set)
\* give ceil(n / chunkSize) calls, call k carrying items
\* [k*size, min((k+1)*size, n)), each item sent once, and repairLexicon
\* returning the per-chunk results concatenated.
C1_AsStated ==
    (Done /\ op \in ChunkedOps /\ Len(input) > 0 /\ ~Failed /\ ~KeyEmpty) => ChunkingHolds

\* C1 amended: the same, provided evolveWords is given at least one rule
\* (with none it returns the words at once and calls nothing).
C1_Chunking ==
    (/\ Done /\ op \in ChunkedOps /\ Len(input) > 0 /\ ~Failed
     /\ ~KeyEmpty
     /\ op = "evolveWords" => Len(rules) > 0)
    => ChunkingHolds

C1_Witness ==
    /\ Done /\ op = "repairLexicon" /\ ~Failed
    /\ Len(input) = 37
    /\ <<Len(calls[1].payload), Len(calls[2].payload), Len(calls[3].payload)>> = <<15, 15, 7>>
    /\ result.list = Payload(op, input)

\* C2: a failing chunk makes repairLexicon return success = false with no
\* repairs, whatever earlier chunks gave, and no later chunk is called.
C2_RepairFailFast ==
    (Done /\ op = "repairLexicon" /\ Failed) =>
        /\ result.returned /\ ~result.raised
        /\ result.success = "false"
        /\ result.list = <<>>
        /\ Len(calls) = failedChunk
        /\ outstanding = 0

C2_Witness ==
    /\ Done /\ op = "repairLexicon" /\ failedChunk = 2
    /\ ChunkCount = 3
    /\ allRepairs # <<>>

\* C3: a failing chunk makes evolveWords return the caller's words, field by
\* field, with none of the changes merged from earlier chunks.
C3_EvolveFallsBack ==
    (Done /\ op = "evolveWords" /\ Failed) =>
        /\ result.returned /\ ~result.raised
        /\ result.list = input

C3_Witness ==
    /\ Done /\ op = "evolveWords" /\ failedChunk = 2
    /\ evolvedLexicon # input
    /\ result.list = input

\* C4: at most one remote call of the operation is outstanding, and call
\* k+1 exists only once the response of call k was parsed and accumulated.
C4_Sequential ==
    /\ outstanding \in {0, 1}
    /\ Len(calls) = processed + outstanding + (IF failedChunk > 0 THEN 1 ELSE 0)
    /\ op \in ChunkedOps /\ pc \in {"loop", "await"} => i = processed * CHUNK_SIZE(op)
    /\ pc = "await" <=> outstanding = 1

C4_Witness ==
    /\ op \in ChunkedOps /\ pc = "await"
    /\ Len(calls) = 3 /\ processed = 2

\* whether the operation was called with the empty input it returns on at once
EmptyInput ==
    \/ op \in ListOps /\ Len(input) = 0
    \/ op = "evolveWords" /\ Len(rules) = 0

\* the operation's own failure value
FailureValue ==
    IF op = "repairLexicon" THEN result.returned /\ result.success = "false" /\ result.list = <<>>
    ELSE IF op = "suggestIPA" THEN result.returned /\ result.text = <<"/error/">>
    ELSE IF op = "evolveWords" THEN result.returned /\ result.list = input
    ELSE IF op = "processCommandAI"
    THEN result.returned /\ result.success = "false" /\ result.modifiedCount = 0
    ELSE IF op = "analyzeSyntax"
    THEN result.returned /\ result.text = <<"Error analyzing syntax. Verifica tu API key.">>
    ELSE IF op = "generatePhonology"
    THEN result.returned /\ result.phonology = DefaultPhonology
    ELSE result.raised

\* C5 as stated: with an empty resolved credential every operation fails
\* with the configuration error and issues no remote call.
C5_AsStated ==
    KeyEmpty =>
        /\ calls = <<>>
        /\ Done => (fault = ConfigurationError /\ FailureValue)

\* C5 amended: with an empty resolved credential no remote call is issued,
\* and every operation fails with the configuration error unless it was
\* called with empty input, which it answers before it looks the credential up.
C5_NoCredential ==
    KeyEmpty =>
        /\ calls = <<>>
        /\ outstanding = 0
        /\ (Done /\ ~EmptyInput) => (fault = ConfigurationError /\ FailureValue)
        /\ (Done /\ EmptyInput) => (fault = NoError /\ result.returned)

C5_Witness ==
    /\ Done /\ op = "repairLexicon" /\ Len(input) > 0
    /\ localStorage = <<" ">> /\ env = <<"k">>
    /\ fault = ConfigurationError
    /\ result.success = "false"

\* C6: only generateWords raises.  The other six return their failure value
\* on a missing credential, a transport failure or a malformed response;
\* generateWords raises "Error generating words: ..." on any of these and on
\* a parsed value that is not a non-empty array, and never returns an empty list.
C6_OnlyGenerateWordsRaises ==
    Done =>
        /\ result.returned # result.raised
        /\ op # "generateWords" => (result.returned /\ (Failed => FailureValue))
        /\ op = "generateWords" =>
              /\ result.raised <=> Failed
              /\ result.raised =>
                    (Len(result.message) = 2 /\ result.message[1] = "Error generating words: ")
              /\ result.returned => result.list # <<>>

C6_Witness ==
    /\ Done /\ op = "generateWords"
    /\ fault = NoWordsError
    /\ result.raised
    /\ result.message = <<"Error generating words: ", "No words could be generated.">>

-----------------------------------------------------------------------------
(* processCommandAI *)

CommandSucceeded == Done /\ op = "processCommandAI" /\ result.success = "true"

\* the modification records of the parsed response
Mods == parsedLog[1]

EntryFields == {"id", "word", "ipa", "etymology"}

\* the fields of record m are overlaid on entry k, the others kept
OverlaidBy(k, m) ==
    \A f \in EntryFields :
        result.list[k][f] = IF f \in m.has \cup {"id"} THEN m[f] ELSE input[k][f]

SamePositions ==
    /\ Len(result.list) = Len(input)
    /\ \A k \in DOMAIN input : result.list[k].id = input[k].id

\* C7 as stated: same length and identifiers; an entry has the fields of a
\* record with its id overlaid (of each such record), an entry no record
\* names is unchanged, a record naming no entry changes nothing.
C7_AsStated ==
    CommandSucceeded =>
        /\ SamePositions
        /\ \A k \in DOMAIN input :
              /\ \A j \in DOMAIN Mods :
                    Mods[j].id = input[k].id =>
                        \A f \in Mods[j].has : result.list[k][f] = Mods[j][f]
              /\ (\A j \in DOMAIN Mods : Mods[j].id # input[k].id) =>
                    result.list[k] = input[k]

\* C7 amended: as stated, but of several records with one id only the first
\* in the response is overlaid.
C7_OverlayFirstMatch ==
    CommandSucceeded =>
        /\ SamePositions
        /\ \A k \in DOMAIN input :
              /\ \A j \in DOMAIN Mods :
                    (/\ Mods[j].id = input[k].id
                     /\ \A l \in 1..(j - 1) : Mods[l].id # input[k].id)
                    => OverlaidBy(k, Mods[j])
              /\ (\A j \in DOMAIN Mods : Mods[j].id # input[k].id) =>
                    result.list[k] = input[k]

C7_Witness ==
    /\ CommandSucceeded
    /\ Len(input) = 2
    /\ Len(Mods) = 2
    /\ Mods[1].id = 1 /\ Mods[2].id = 1 /\ Mods[1].has # Mods[2].has
    /\ result.list[1].word = 7
    /\ result.list[2] = input[2]

\* C8: modifiedCount is the number of input entries matched by a record and
\* replaced; records naming no entry and repeated ids do not add to it.
C8_ModifiedCount ==
    CommandSucceeded =>
        result.modifiedCount =
            Cardinality({k \in DOMAIN input : \E j \in DOMAIN Mods : Mods[j].id = input[k].id})

-----------------------------------------------------------------------------
(* evolveWords *)

\* C9: a record changes an entry only if the entry's word in the caller's
\* input is the record's originalWord; an entry whose input word no record
\* names is unchanged, a record naming no input word changes nothing, and
\* length and identifiers are kept.
C9_MatchOnInputWord ==
    op = "evolveWords" =>
        /\ \A t \in touched : input[t[1]].word = t[2]
        /\ \A t \in touched : \E k \in DOMAIN input : input[k].word = t[2]
        /\ (Done /\ ~Failed) =>
              /\ SamePositions
              /\ \A k \in DOMAIN input :
                    result.list[k] # input[k] => \E t \in touched : t[1] = k /\ t[2] = input[k].word

-----------------------------------------------------------------------------
(* safeParseJSON *)

\* a text that is one JSON object or array and nothing else
BareJSON(t) ==
    /\ ~JSONparse(t).threw
    /\ At(t, 1) \in {"{", "["}
    /\ At(t, Len(t)) \in {"}", "]"}

\* C10: on bare JSON the parser succeeds and returns the value the text encodes.
C10_BareJSON ==
    (Done /\ op = "safeParseJSON" /\ BareJSON(text)) =>
        /\ ~jsonResult.threw
        /\ jsonResult.value = JSONparse(text).value

\* the candidates of the four heuristics, in priority order
Heuristics(t) ==
    LET md == markdownMatch(t)
        firstCurly == indexOf(t, "{")
        lastCurly == lastIndexOf(t, "}")
    IN  << [found |-> md.found /\ md.str # <<>>, str |-> md.str],
           IF firstCurly # 0 /\ lastCurly > firstCurly
           THEN [found |-> TRUE, str |-> SubSeq(t, firstCurly, lastCurly)]
           ELSE NoMatch,
           aggressiveMatch(t),
           [found |-> TRUE, str |-> Trim(t)] >>

\* whether a candidate, once cleaned, parses
Parses(c) == c.found /\ ~Cleaned(c.str).threw /\ ~JSONparse(Cleaned(c.str).str).threw

\* C11: the heuristics fall through on a parse failure: the result is the
\* value of the first candidate, in priority order, that parses, and the
\* parser fails only when no heuristic's candidate parses.
C11_FallThrough ==
    (Done /\ op = "safeParseJSON") =>
        LET h == Heuristics(text)
        IN  IF \E k \in 1..4 : Parses(h[k])
            THEN LET k == CHOOSE k \in 1..4 :
                              Parses(h[k]) /\ \A j \in 1..(k - 1) : ~Parses(h[j])
                 IN  /\ ~jsonResult.threw
                     /\ jsonResult.value = JSONparse(Cleaned(h[k].str).str).value
            ELSE jsonResult.threw

\* the fence of a text that holds exactly one, and what stands in it
FenceOpen(t) == CHOOSE a \in 1..Len(t) : t[a] = "FO"
FenceClose(t) == CHOOSE b \in 1..Len(t) : t[b] = "FC"
Fenced(t) == SubSeq(t, FenceOpen(t) + 1, FenceClose(t) - 1)

\* a text with one JSON-tagged fence around one valid JSON object
FencedObject(t) ==
    /\ Cardinality({a \in 1..Len(t) : t[a] = "FO"}) = 1
    /\ Cardinality({b \in 1..Len(t) : t[b] = "FC"}) = 1
    /\ FenceOpen(t) < FenceClose(t)
    /\ At(Trim(Fenced(t)), 1) = "{"
    /\ ~JSONparse(Fenced(t)).threw

\* C12: a valid object in a JSON-tagged fence is returned exactly, whatever
\* prose, braces and brackets included, stands before and after the fence.
C12_FencedObject ==
    (Done /\ op = "safeParseJSON" /\ FencedObject(text)) =>
        /\ ~jsonResult.threw
        /\ jsonResult.value = JSONparse(Fenced(text)).value

\* a fenced object with braces before the fence and brackets after it
C12_Witness ==
    /\ Done /\ op = "safeParseJSON" /\ FencedObject(text)
    /\ \E j \in 1..(FenceOpen(text) - 1) : text[j] = "{"
    /\ \E j \in (FenceClose(text) + 1)..Len(text) : text[j] = "]"
    /\ Len(Fenced(text)) > 2
    /\ ~jsonResult.threw

-----------------------------------------------------------------------------
(* safeParsePhonologyConfig *)

\* the value the parser handed to the normalizer
ParsedPhonology == parsedLog[1]

Normalized == Done /\ op = "generatePhonology" /\ parsedLog # <<>>

\* C13: the normalizer does not fail on a parsed value and returns exactly
\* the six fields; a string field is the source's value when that is a
\* string and "" otherwise, a sequence field is the source's value when that
\* is an array and empty otherwise; an empty object gives all-empty fields,
\* and a wrong-typed field changes nothing in the other fields.
C13_Normalizer ==
    Normalized =>
        LET src == ParsedPhonology
            out == result.phonology
        IN  /\ result.returned /\ ~result.raised
            /\ DOMAIN out = {"name", "description", "syllableStructure",
                             "consonants", "vowels", "bannedCombinations"}
            /\ \A f \in {"name", "description", "syllableStructure"} :
                  out[f] = IF src[f].t = "string" THEN src[f] ELSE [t |-> "string", v |-> <<>>]
            /\ \A f \in {"consonants", "vowels", "bannedCombinations"} :
                  out[f] = IF src[f].t = "array" THEN src[f] ELSE [t |-> "array", v |-> <<>>]
            /\ (\A f \in DOMAIN src : src[f].t = "undefined") =>
                  \A f \in DOMAIN out : out[f].v = <<>>

\* a number for name and a string for consonants next to a well-typed
\* description and vowels: the two are defaulted, the others kept
C13_Witness ==
    /\ Normalized
    /\ ParsedPhonology["name"].t = "number"
    /\ ParsedPhonology["consonants"].t = "string"
    /\ ParsedPhonology["description"] = [t |-> "string", v |-> <<"x">>]
    /\ ParsedPhonology["vowels"] = [t |-> "array", v |-> <<"y">>]
    /\ result.phonology["name"].v = <<>>
    /\ result.phonology["consonants"] = [t |-> "array", v |-> <<>>]
    /\ result.phonology["description"].v = <<"x">>
    /\ result.phonology["vowels"].v = <<"y">>

-----------------------------------------------------------------------------
(* Caller-owned collections *)

\* the caller's list still holds the entries it was called with
InputIntact == \E pat \in WordPeriods : input = Lexicon(Len(input), pat)

\* whether the finished operation handed a list back
ReturnsList ==
    /\ Done /\ result.returned
    /\ op = "processCommandAI" => result.success = "true"

\* C14: repairLexicon, evolveWords and processCommandAI never change the
\* caller's list or its entries, on any path, and a list they return is
\* always a new collection, never the caller's own list object.
C14_NewCollection ==
    op \in {"repairLexicon", "evolveWords", "processCommandAI"} =>
        /\ InputIntact
        /\ ReturnsList => ~result.sameObject

-----------------------------------------------------------------------------
(* Etymology and identifiers *)

IsPrefix(a, b) == Len(a) <= Len(b) /\ SubSeq(b, 1, Len(a)) = a

\* C15: every entry returned by evolveWords or processCommandAI has the id
\* of the input entry at its position and an etymology that starts with the
\* input entry's etymology (empty when absent), whatever records the model
\* returned.
C15_AppendOnly ==
    (op \in {"evolveWords", "processCommandAI"} /\ ReturnsList) =>
        /\ SamePositions
        /\ \A k \in DOMAIN input :
              IsPrefix(input[k].etymology, result.list[k].etymology)

====
